---- MODULE Spec2Model ----
(***************************************************************************)
(* Delegated agent execution (backend/agent/tools/agent_execution_tool.py) *)
(* as a state machine: one caller of call_agent, the background task it    *)
(* starts, the single-run cleanup and the sweep, all over one shared       *)
(* record store and one clock.                                             *)
(*                                                                         *)
(* Text is a sequence of tokens; a literal the code tests for or that a    *)
(* claim speaks of ("Error:", "timed out") is a token of its own, so that  *)
(* Python's `x in s` is token membership and an f-string is \o.            *)
(***************************************************************************)
EXTENDS Integers, Sequences, FiniteSets, TLC

\* ---------------------------------------------------------------- bounds
MaxTicks == 6          \* the clock stops after this many ticks
TickSeconds == 30      \* seconds per tick of the clock
MaxReplies == 1        \* assistant messages the runtime appends to a thread
LongBy == 1            \* characters a long raw_result has beyond a budget

\* ------------------------------------------------------ program constants
MinTimeout == 60       \* call_agent: max(60, ...)
MaxTimeout == 1800     \* call_agent: min(1800, ...)
Grace == 10            \* _get_agent_execution_result(..., timeout=10)
SecondsPerMinute == 60 \* timedelta(minutes=...)
MinTokens == 100       \* call_agent: max(100, ...)
MaxTokens == 4000      \* call_agent: min(4000, ...)
DefaultMaxTokens == 1000   \* call_agent(..., max_tokens: int = 1000, ...)
CharsPerToken == 4     \* _truncate_from_end: max_tokens * 4
ContextLines == 3      \* _extract_last_message: line_index - 3
FallbackAbove == 100   \* _extract_last_message: len(full_output) > 100
FallbackShare == 5     \* _extract_last_message: -len(full_output)//5
PersistedLimit == 2000 \* _get_agent_execution_result: len(result) > 2000
PersistedKept == 1900  \* _get_agent_execution_result: result[:1900]

\* ------------------------------------------------------------ input sets
NoAccount == "none"                    \* a NULL account_id column
SelfAccount == "acctA"                 \* self.account_id
Accounts == {"acctA", "acctB"}
AgentIds == {"A1", "B1", "Z9"}         \* Z9 is in no table
AgentOwner == [a \in AgentIds |-> IF a = "A1" THEN "acctA"
                                  ELSE IF a = "B1" THEN "acctB" ELSE NoAccount]
None == <<"None">>                     \* Python's None where a text may stand
NoWorkflow == "none"
WorkflowIds == {"W1", "W2", "W9"}      \* W9 is in no table
Workflows == [w \in {"W1", "W2"} |->
                [agent_id |-> "A1",
                 name |-> IF w = "W1" THEN "daily" ELSE "old",
                 description |-> IF w = "W1" THEN <<"the daily report">>
                                 ELSE None,
                 status |-> IF w = "W1" THEN "active" ELSE "inactive"]]
RequestedTimeouts == {5, 90, 2000}
StaleMinutes == {1, 2}
NoTime == -1
NoText == << >>
StoreError == <<"connection lost">>    \* str(e) of a failed store call
RuntimeErrors == {<<"boom">>}          \* str(e) of a failed runtime task
Reply == <<"Done: pong">>              \* an assistant message
MaxTime == MaxTicks * TickSeconds

Has(s, tok) == \E i \in 1..Len(s) : s[i] = tok
Num(n) == ToString(n)

\* ------------------------------------------------------------------ state
VARIABLES
    now,        \* the clock, in seconds
    threads,    \* the threads table, by thread_id 1..Len
    messages,   \* the messages table, in creation order
    runs,       \* the agent_runs table, by id 1..Len
    pc,         \* where the caller of call_agent is
    call,       \* the arguments and locals of that call
    response,   \* what call_agent returned
    task,       \* the background task of the call
    sweep,      \* cleanup_stuck_agent_runs_by_timeout in progress
    cleanup,    \* cleanup_stuck_agent_run in progress
    workflows,  \* the agent_workflows table, by id
    other,      \* a second call_agent, while it is not the one taking steps
    agents,     \* the agents table, a set of rows
    discovery   \* discover_agents in progress

vars == <<now, threads, messages, runs, pc, call, response,
          task, sweep, cleanup, workflows, other, agents, discovery>>
store == <<threads, messages, runs, workflows>>

NoCall == [agent_id |-> "A1", message |-> <<"ping">>,
           execution_mode |-> "prompt",
           workflow_id |-> NoWorkflow, timeout_arg |-> 0, timeout |-> 0,
           model_arg |-> None, model_name |-> None,
           max_tokens_arg |-> DefaultMaxTokens, max_tokens |-> DefaultMaxTokens,
           output_mode_arg |-> "last_message", output_mode |-> "last_message",
           workflow |-> NoWorkflow, thread_id |-> 0, agent_run_id |-> 0,
           started |-> NoTime, expired |-> FALSE,
           run_status |-> "", wf_failed |-> FALSE, task_error |-> NoText,
           faults |-> 0, raw_result |-> NoText]
NoResponse == [kind |-> "none", status |-> "", result |-> NoText]
NoTask == [state |-> "none", run |-> 0, thread |-> 0, cancel |-> FALSE,
           err |-> NoText]
NoSweep == [pc |-> "idle", account_id |-> NoAccount, minutes |-> 0,
            selected |-> {}, todo |-> << >>, count |-> 0, written |-> {},
            ret |-> -1]
NoCleanup == [pc |-> "idle", run |-> 0, ret |-> "none"]
NoOther == [pc |-> "idle", call |-> NoCall, response |-> NoResponse,
            task |-> NoTask]

\* the rows of the agents table: the agents of AgentIds that have an owner
AgentRow(a, name, description, acct, t) ==
    [agent_id |-> a, name |-> name, description |-> description,
     account_id |-> acct, created_at |-> t]
Agents ==
    {AgentRow(a, a, None, AgentOwner[a], 0) :
        a \in {x \in AgentIds : AgentOwner[x] # NoAccount}}

\* getattr(self.thread_manager, 'current_agent_id', None) when the thread
\* manager names no agent
NoAgentId == "None"
NoDiscovery ==
    [pc |-> "idle", account_id |-> NoAccount, current_agent_id |-> NoAgentId,
     todo |-> << >>, agents |-> << >>, failed |-> {},
     response |-> [kind |-> "none", result |-> << >>]]

Init ==
    /\ now = 0
    /\ threads = << >>
    /\ messages = << >>
    /\ runs = << >>
    /\ pc = "idle"
    /\ call = NoCall
    /\ response = NoResponse
    /\ task = NoTask
    /\ sweep = NoSweep
    /\ cleanup = NoCleanup
    /\ workflows = Workflows
    /\ other = NoOther
    /\ agents = Agents
    /\ discovery = NoDiscovery

Terminal(s) == s \in {"completed", "failed"}

Max(a, b) == IF a >= b THEN a ELSE b
Min(a, b) == IF a <= b THEN a ELSE b

\* ------------------------------------------------- the texts the code builds
ModeError == <<"Error:", " execution_mode must be either 'prompt' or 'workflow'">>
WorkflowIdRequired == <<"Error:", " workflow_id is required when execution_mode is 'workflow'">>
AccessDenied == <<"Agent not found or access denied">>
DatabaseError == <<"Database connection error">>
CallError(e) == <<"Error calling agent: ">> \o e
WorkflowNotFound(w, a) == <<"Error:", " Workflow ", w, " not found for agent ", a>>
WorkflowNotActive(name, status) ==
    <<"Error:", " Workflow ", name, " is not active (status: ", status, ")">>
WorkflowFailed(e) == <<"Workflow execution failed: ">> \o e
WorkflowError(e) == <<"Error executing workflow: ">> \o e
ExecuteError(e) == <<"Error executing agent: ">> \o e
AgentNotFound(a) == <<"Error:", " Agent ", a, " not found">>
ServiceUnavailable == <<"Error:", " Agent execution service unavailable">>
TimedOutResult(t) ==
    <<"Error:", " Agent execution ", "timed out", " after ", Num(t),
      " seconds. The agent may be stuck or taking too long to respond.">>
RunFailedResult(msg) == <<"Agent execution failed: ">> \o msg
RunIncomplete(status) == <<"Agent execution incomplete (status: ", status, ")">>
NoMessagesAsError == <<"Error:", " Agent completed but no response messages found">>
NoMessages == <<"Agent completed but no response messages found">>
Completed(result) ==
    <<"Agent execution completed successfully:", "\n", "\n">> \o result
TruncationMarker == <<"\n", "\n", "[... response truncated for brevity ...]">>
RetrieveError(e) == <<"Error retrieving agent result: ">> \o e
TimedOutMessage == <<"Execution ", "timed out">>
StuckMessage == <<"Agent run was stuck and cleaned up">>
SweepMessage(m) == <<"Agent run ", "timed out", " after ", Num(m), " minutes">>

\* --------------------------------------------------------- pure operators
\* the clamp without its lower bound
ClampTimeoutNoFloor(t) == Min(MaxTimeout, t)

\* timeout = max(60, min(1800, timeout))
ClampTimeout(t) == Max(MinTimeout, Min(MaxTimeout, t))

\* an update of the status alone
FailRunStatusOnly(rs, id, msg, t) ==
    [rs EXCEPT ![id] = [@ EXCEPT !.status = "failed"]]

\* .update({status: failed, error_message, completed_at}).eq('id', id)
FailRun(rs, id, msg, t) ==
    [rs EXCEPT ![id] = [@ EXCEPT !.status = "failed",
                                 !.error_message = msg,
                                 !.completed_at = t]]

\* _mark_agent_run_as_failed: the update, or nothing when the store raises
mark_agent_run_as_failed(rs, id, msg, t, ok) ==
    IF ok /\ id \in 1..Len(rs) THEN FailRun(rs, id, msg, t) ELSE rs

\* the row agent_runs.insert(agent_run_data) leaves in the table: the data
\* names no account_id, so that column is what the store makes of it
NewRun(c, t, acct) ==
    [thread_id |-> c.thread_id, agent_id |-> c.agent_id, status |-> "running",
     started_at |-> t, completed_at |-> NoTime, error_message |-> NoText,
     account_id |-> acct, timeout |-> c.timeout,
     workflow_execution |-> c.workflow # NoWorkflow]

NewThread(c) ==
    [account_id |-> SelfAccount, is_public |-> FALSE,
     workflow_execution |-> c.workflow # NoWorkflow,
     workflow_name |-> IF c.workflow = NoWorkflow THEN NoWorkflow
                       ELSE workflows[c.workflow].name,
     timeout |-> c.timeout]

\* json.dumps of an object with a 'content' member (lines 322-325), and what
\* lines 442-449 read of a content: the 'content' member of such an object,
\* and any other content as it is
JsonOpen == "{content:"
JsonClose == "}"
JsonObject(text) == <<JsonOpen>> \o text \o <<JsonClose>>
MessageText(content) ==
    IF Len(content) >= 2 /\ content[1] = JsonOpen /\ content[Len(content)] = JsonClose
    THEN SubSeq(content, 2, Len(content) - 1)
    ELSE content

\* the banner without the workflow's description
SeedContentBare(c) ==
    IF c.workflow = NoWorkflow THEN c.message
    ELSE <<"Executing workflow '", workflows[c.workflow].name, "'",
           "\n\nUser message: ">> \o c.message

\* final_message of _execute_agent_with_thread, lines 312-317
SeedContent(c) ==
    IF c.workflow = NoWorkflow THEN c.message
    ELSE LET workflow == workflows[c.workflow]
             workflow_context ==
                 <<"Executing workflow '", workflow.name, "'">>
                   \o (IF workflow.description \notin {None, << >>}
                       THEN <<": ">> \o workflow.description ELSE << >>)
         IN workflow_context \o <<"\n\nUser message: ">> \o c.message

\* message_data, lines 320-332: the content is json.dumps of the role and
\* the final message
NewMessage(c) ==
    [thread_id |-> c.thread_id, type |-> "user", is_llm_message |-> FALSE,
     agent_id |-> c.agent_id, content |-> JsonObject(SeedContent(c))]

\* call_agent, lines 193, 202, 207, 226 and 233: what raw_result makes of
\* the response's kind and status
Respond(raw) ==
    IF Has(raw, "Error:")
    THEN [kind |-> "failure", status |-> "failed", result |-> raw]
    ELSE [kind |-> "success", status |-> "completed", result |-> raw]

\* ---- the processing of raw_result; here a text is read character by
\* ---- character (a one-character token each)
White == {" ", "\n", "\t"}
Backtick == "bq"        \* the one character of which a code fence is made
Rep(c, n) == [i \in 1..n |-> c]
NoOutput == <<"No output received">>
TruncatedPrefix(n) == <<"...[truncated ", Num(n), " characters]...\n">>

RECURSIVE FirstBlack(_, _)
FirstBlack(s, i) ==
    IF i > Len(s) \/ s[i] \notin White THEN i ELSE FirstBlack(s, i + 1)

RECURSIVE LastBlack(_, _)
LastBlack(s, i) ==
    IF i < 1 \/ s[i] \notin White THEN i ELSE LastBlack(s, i - 1)

\* str.strip()
Strip(s) == SubSeq(s, FirstBlack(s, 1), LastBlack(s, Len(s)))

\* s[i:].split('\n')
RECURSIVE SplitFrom(_, _)
SplitFrom(s, i) ==
    LET rest == {j \in i..Len(s) : s[j] = "\n"}
    IN IF rest = {} THEN <<SubSeq(s, i, Len(s))>>
       ELSE LET j == CHOOSE j \in rest : \A k \in rest : j <= k
            IN <<SubSeq(s, i, j - 1)>> \o SplitFrom(s, j + 1)

\* '\n'.join(lines)
RECURSIVE JoinLines(_)
JoinLines(lines) ==
    IF lines = << >> THEN << >>
    ELSE IF Len(lines) = 1 THEN lines[1]
    ELSE lines[1] \o <<"\n">> \o JoinLines(Tail(lines))

\* line.startswith(c * n)
StartsWith(line, c, n) == Len(line) >= n /\ \A i \in 1..n : line[i] = c

\* line.strip() and not line.startswith('#') and not line.startswith(fence)
Substantial(line) ==
    /\ Strip(line) # << >>
    /\ ~StartsWith(line, "#", 1)
    /\ ~StartsWith(line, Backtick, 3)

\* the lines before the selected one, without it
ContextOnly(lines, full_output) ==
    LET good == {i \in 1..Len(lines) : Substantial(lines[i])}
    IN IF good # {}
       THEN LET last == CHOOSE i \in good : \A k \in good : k <= i
            IN Strip(JoinLines(SubSeq(lines, Max(1, last - ContextLines), last - 1)))
       ELSE full_output

\* _extract_last_message, lines 33-45: the scan of the lines from the last
\* one, then the fallback
LastMessageOf(lines, full_output) ==
    LET good == {i \in 1..Len(lines) : Substantial(lines[i])}
    IN IF good # {}
       THEN LET last == CHOOSE i \in good : \A k \in good : k <= i
                \* lines.index(line): the first line equal to it
                same == {i \in 1..Len(lines) : lines[i] = lines[last]}
                line_index == CHOOSE i \in same : \A k \in same : i <= k
                start_index == Max(1, line_index - ContextLines)
            IN Strip(JoinLines(SubSeq(lines, start_index, Len(lines))))
       ELSE IF Len(full_output) > FallbackAbove
       THEN LET n == Len(full_output)
                k == (n + FallbackShare - 1) \div FallbackShare
            IN Strip(SubSeq(full_output, n - k + 1, n))
       ELSE full_output

\* _extract_last_message, lines 29-31, with lines the one value of
\* full_output.strip().split('\n')
extract_last_message(full_output) ==
    IF Strip(full_output) = << >> THEN NoOutput
    ELSE CHOOSE message \in {LastMessageOf(lines, full_output) :
                               lines \in {SplitFrom(Strip(full_output), 1)}} : TRUE

\* the truncation keeping the beginning of the text
truncate_from_start(text, max_tokens) ==
    IF max_tokens <= 0 THEN << >>
    ELSE LET max_chars == max_tokens * CharsPerToken
         IN IF Len(text) <= max_chars THEN text
            ELSE TruncatedPrefix(Len(text) - max_chars)
                   \o SubSeq(text, 1, max_chars)

\* _truncate_from_end
truncate_from_end(text, max_tokens) ==
    IF max_tokens <= 0 THEN << >>
    ELSE LET max_chars == max_tokens * CharsPerToken
         IN IF Len(text) <= max_chars THEN text
            ELSE TruncatedPrefix(Len(text) - max_chars)
                   \o SubSeq(text, Len(text) - max_chars + 1, Len(text))

\* str.lower(), of the letters of the alphabet
UpperCase == <<"A", "B", "C", "D", "E", "F", "G", "H", "I", "J", "K", "L", "M",
               "N", "O", "P", "Q", "R", "S", "T", "U", "V", "W", "X", "Y", "Z">>
LowerCase == <<"a", "b", "c", "d", "e", "f", "g", "h", "i", "j", "k", "l", "m",
               "n", "o", "p", "q", "r", "s", "t", "u", "v", "w", "x", "y", "z">>
Lower(s) ==
    [i \in 1..Len(s) |->
        IF \E k \in 1..Len(UpperCase) : UpperCase[k] = s[i]
        THEN LowerCase[CHOOSE k \in 1..Len(UpperCase) : UpperCase[k] = s[i]]
        ELSE s[i]]

\* sub in s
Contains(s, sub) ==
    \E i \in 1..(Len(s) - Len(sub) + 1) : SubSeq(s, i, i + Len(sub) - 1) = sub

\* _get_fallback_model: the providers of line 64 and the model of line 68
Providers ==
    {<<"o", "p", "e", "n", "r", "o", "u", "t", "e", "r">>,
     <<"a", "n", "t", "h", "r", "o", "p", "i", "c">>,
     <<"o", "p", "e", "n", "a", "i">>,
     <<"g", "o", "o", "g", "l", "e">>}
FallbackModel ==
    <<"o", "p", "e", "n", "r", "o", "u", "t", "e", "r", "/", "g", "o", "o", "g", "l", "e", "/",
      "g", "e", "m", "i", "n", "i", "-", "2", ".", "5", "-", "f", "l", "a", "s", "h">>

\* the test of line 64 on the request as it was written
get_fallback_model_cased(requested_model) ==
    IF requested_model \notin {None, << >>}
         /\ \E provider \in Providers : Contains(requested_model, provider)
    THEN requested_model
    ELSE FallbackModel

\* _get_fallback_model
get_fallback_model(requested_model) ==
    IF requested_model \notin {None, << >>}
         /\ \E provider \in Providers : Contains(Lower(requested_model), provider)
    THEN requested_model
    ELSE FallbackModel

\* the clamp without its lower bound
ClampMaxTokensNoFloor(m) == Min(MaxTokens, m)

\* max_tokens = max(100, min(4000, max_tokens))
ClampMaxTokens(m) == Max(MinTokens, Min(MaxTokens, m))

\* the output mode left as it was requested
OutputModeKept(m) == m

\* lines 180-181
OutputMode(m) == IF m \notin {"last_message", "full"} THEN "last_message" ELSE m

\* call_agent, lines 192-233: response_data, made of the call's locals
ResponseData(c) ==
    LET raw == c.raw_result
        r == Respond(raw)
    IN IF r.status = "failed"
       THEN [kind |-> r.kind, status |-> r.status, result |-> raw,
             model_used |-> c.model_name,
             max_tokens |-> c.max_tokens, output_mode |-> c.output_mode]
       ELSE [kind |-> r.kind, status |-> r.status,
             result |-> IF c.output_mode = "last_message"
                        THEN extract_last_message(raw)
                        ELSE IF c.output_mode = "full"
                        THEN truncate_from_end(raw, c.max_tokens)
                        ELSE raw,
             raw_result |-> IF c.output_mode = "last_message" THEN raw ELSE None,
             model_used |-> c.model_name,
             max_tokens |-> c.max_tokens, output_mode |-> c.output_mode]

\* call_agent without its except clause: the exception reaches the caller
call_agent_propagates(e) ==
    [kind |-> "fault", status |-> "", result |-> e]

\* call_agent's except Exception: fail_response("Error calling agent: ...")
call_agent_except(e) ==
    [kind |-> "failure", status |-> "", result |-> CallError(e)]

\* the persisted result returned whole, however long
PersistedTextUncut(content) == MessageText(content)

\* lines 440-453: the result of the last message, cut when it is too long
PersistedText(content) ==
    IF Len(MessageText(content)) > PersistedLimit
    THEN SubSeq(MessageText(content), 1, PersistedKept) \o TruncationMarker
    ELSE MessageText(content)

\* the assistant messages of a thread, in creation order
AssistantMessages(th) ==
    SelectSeq(messages, LAMBDA m : m.thread_id = th /\ m.type = "assistant")

\* ------------------------------------------------------------------ clock
\* where the caller waits for something that takes time: a store call is
\* taken to answer within the tick it was made in. The clock starts with the
\* call: only differences of times are ever read.
Suspended == {"wf_exec", "waiting", "returned"}

\* asyncio.wait_for's timer is due and has not fired yet
TimerDue ==
    /\ pc = "waiting"
    /\ task.state = "running"
    /\ ~task.cancel
    /\ now >= call.started + call.timeout

Tick ==
    /\ now < MaxTime
    /\ ~TimerDue
    /\ pc \in Suspended
    /\ now' = now + TickSeconds
    /\ UNCHANGED <<store, pc, call, response, task, sweep, cleanup, other,
                   agents, discovery>>

\* ------------------------------------------------------------- call_agent
Return(resp) ==
    /\ pc' = "returned"
    /\ response' = resp

\* the call without the check of line 166
CallUnchecked(a, mode, w, t, mt, om) ==
    /\ pc = "idle"
    /\ call' = [NoCall EXCEPT !.agent_id = a, !.execution_mode = mode,
                              !.workflow_id = w, !.timeout_arg = t,
                              !.timeout = t,
                              !.max_tokens_arg = mt, !.max_tokens = mt,
                              !.output_mode_arg = om, !.output_mode = om]
    /\ task' = NoTask
    /\ IF mode \notin {"prompt", "workflow"}
       THEN Return([kind |-> "failure", status |-> "", result |-> ModeError])
       ELSE pc' = "verify" /\ response' = NoResponse
    /\ UNCHANGED <<now, store, sweep, cleanup, other, agents, discovery>>

\* lines 161-167: the arguments are validated
call_agent(a, msg, mode, w, mn, t, mt, om) ==
    /\ pc = "idle"
    /\ call' = [NoCall EXCEPT !.agent_id = a, !.message = msg,
                              !.execution_mode = mode,
                              !.workflow_id = w, !.timeout_arg = t,
                              !.timeout = t,
                              !.model_arg = mn, !.model_name = mn,
                              !.max_tokens_arg = mt, !.max_tokens = mt,
                              !.output_mode_arg = om, !.output_mode = om]
    /\ task' = NoTask
    /\ IF mode \notin {"prompt", "workflow"}
       THEN Return([kind |-> "failure", status |-> "", result |-> ModeError])
       ELSE IF mode = "workflow" /\ w = NoWorkflow
       THEN Return([kind |-> "failure", status |-> "", result |-> WorkflowIdRequired])
       ELSE pc' = "verify" /\ response' = NoResponse
    /\ UNCHANGED <<now, store, sweep, cleanup, other, agents, discovery>>

\* the call with model_name left to its default
CallWith(a, mode, w, t, mt, om) ==
    call_agent(a, <<"ping">>, mode, w, None, t, mt, om)

\* the call with max_tokens and output_mode left to their defaults too
Call(a, mode, w, t) ==
    CallWith(a, mode, w, t, DefaultMaxTokens, "last_message")

\* lines 169-190 with _verify_agent_access (552-565)
VerifyOk ==
    /\ pc = "verify"
    /\ AgentOwner[call.agent_id] = SelfAccount
    /\ call' = [call EXCEPT !.model_name = get_fallback_model(call.model_arg),
                            !.timeout = ClampTimeout(call.timeout_arg),
                            !.max_tokens = ClampMaxTokens(call.max_tokens_arg),
                            !.output_mode = OutputMode(call.output_mode_arg)]
    /\ pc' = IF call.execution_mode = "workflow" THEN "wf_lookup" ELSE "ins_thread"
    /\ UNCHANGED <<now, store, response, task, sweep, cleanup, other,
                   agents, discovery>>

\* the access check letting through an agent the account does not own
VerifyWaved ==
    /\ pc = "verify"
    /\ AgentOwner[call.agent_id] # SelfAccount
    /\ call' = [call EXCEPT !.timeout = ClampTimeout(call.timeout_arg)]
    /\ pc' = IF call.execution_mode = "workflow" THEN "wf_lookup" ELSE "ins_thread"
    /\ UNCHANGED <<now, store, response, task, sweep, cleanup, other,
                   agents, discovery>>

VerifyDenied ==
    /\ pc = "verify"
    /\ AgentOwner[call.agent_id] # SelfAccount
    /\ call' = call
    /\ Return(call_agent_except(AccessDenied))
    /\ UNCHANGED <<now, store, task, sweep, cleanup, other, agents, discovery>>

VerifyFails ==
    /\ pc = "verify"
    /\ call' = [call EXCEPT !.faults = 1]
    /\ Return(call_agent_except(DatabaseError))
    /\ UNCHANGED <<now, store, task, sweep, cleanup, other, agents, discovery>>

\* a helper returned raw_result: lines 192-233 make the response of it
Finish(raw) ==
    /\ pc' = "respond"
    /\ call' = [call EXCEPT !.raw_result = raw]

FinishWith(raw, c) ==
    /\ pc' = "respond"
    /\ call' = [c EXCEPT !.raw_result = raw]

RespondStep ==
    /\ pc = "respond"
    /\ call' = call
    /\ Return(ResponseData(call))
    /\ UNCHANGED <<now, store, task, sweep, cleanup, other, agents, discovery>>

\* other state of a step of the caller that only touches pc and call
CallerOnly == UNCHANGED <<now, store, response, task, sweep, cleanup, other,
                   agents, discovery>>

\* ------------------------------------------------ _execute_agent_workflow
\* lines 242-251 and the import of the execution service (254-256, 270-273)
WorkflowLookup ==
    /\ pc = "wf_lookup"
    /\ LET w == call.workflow_id
           found == w \in DOMAIN workflows /\ workflows[w].agent_id = call.agent_id
       IN \/ /\ ~found
             /\ Finish(WorkflowNotFound(w, call.agent_id))
          \/ /\ found /\ workflows[w].status # "active"
             /\ Finish(WorkflowNotActive(workflows[w].name, workflows[w].status))
          \/ /\ found /\ workflows[w].status = "active"
             /\ \/ /\ pc' = "wf_exec"       \* execute_workflow is awaited
                   /\ call' = [call EXCEPT !.started = now]
                \/ /\ pc' = "ins_thread"    \* ImportError: the thread fallback
                   /\ call' = [call EXCEPT !.workflow = w]
    /\ CallerOnly

WorkflowLookupFails ==
    /\ pc = "wf_lookup"
    /\ FinishWith(WorkflowError(StoreError), [call EXCEPT !.faults = 1])
    /\ CallerOnly

\* the execution leaving the workflow it ran inactive
WorkflowExecutedMarking ==
    /\ pc = "wf_exec"
    /\ Finish(Reply)
    /\ workflows' = [workflows EXCEPT ![call.workflow_id].status = "inactive"]
    /\ UNCHANGED <<now, threads, messages, runs, response, task, sweep,
                   cleanup, other, agents, discovery>>

\* lines 258-268: what the execution service answers, whenever it answers
WorkflowExecuted ==
    /\ pc = "wf_exec"
    /\ \/ Finish(Reply)
       \/ \E e \in RuntimeErrors :
            FinishWith(WorkflowFailed(e), [call EXCEPT !.wf_failed = TRUE])
       \/ \E e \in RuntimeErrors :
            FinishWith(WorkflowError(e), [call EXCEPT !.faults = 1])
    /\ CallerOnly

\* --------------------------------------------- _execute_agent_with_thread
\* any store call of lines 290-370 raising: except Exception, line 411
BuildFails ==
    /\ pc \in {"ins_thread", "ins_msg", "ins_run", "get_agent"}
    /\ FinishWith(ExecuteError(StoreError), [call EXCEPT !.faults = 1])
    /\ CallerOnly

\* the build taking a thread that is already there
InsertThreadReused ==
    /\ pc = "ins_thread"
    /\ IF threads = << >>
       THEN /\ threads' = Append(threads, NewThread(call))
            /\ call' = [call EXCEPT !.thread_id = 1]
       ELSE /\ threads' = threads
            /\ call' = [call EXCEPT !.thread_id = 1]
    /\ pc' = "ins_msg"
    /\ UNCHANGED <<now, messages, runs, response, task, sweep,
                   cleanup, workflows, other, agents, discovery>>

\* lines 295-309
InsertThread ==
    /\ pc = "ins_thread"
    /\ threads' = Append(threads, NewThread(call))
    /\ call' = [call EXCEPT !.thread_id = Len(threads) + 1]
    /\ pc' = "ins_msg"
    /\ UNCHANGED <<now, messages, runs, response, task, sweep,
                   cleanup, workflows, other, agents, discovery>>

\* the build going on to the run without the seed message
InsertMessageSkipped ==
    /\ pc = "ins_msg"
    /\ pc' = "ins_run"
    /\ UNCHANGED <<now, threads, messages, runs, call, response, task,
                   sweep, cleanup, workflows, other, agents, discovery>>

\* lines 311-334
InsertMessage ==
    /\ pc = "ins_msg"
    /\ messages' = Append(messages, NewMessage(call))
    /\ pc' = "ins_run"
    /\ UNCHANGED <<now, threads, runs, call, response, task,
                   sweep, cleanup, workflows, other, agents, discovery>>

\* lines 336-353
InsertRun ==
    /\ pc = "ins_run"
    /\ \E acct \in {NoAccount, threads[call.thread_id].account_id} :
         runs' = Append(runs, NewRun(call, now, acct))
    /\ call' = [call EXCEPT !.agent_run_id = Len(runs) + 1]
    /\ pc' = "get_agent"
    /\ UNCHANGED <<now, threads, messages, response, task,
                   sweep, cleanup, workflows, other, agents, discovery>>

\* lines 356-386: the import, the agent's configuration, create_task
StartAgent ==
    /\ pc = "get_agent"
    /\ \/ /\ Finish(ServiceUnavailable)      \* ImportError, line 406
          /\ UNCHANGED task
       \/ /\ Finish(AgentNotFound(call.agent_id))   \* no such row any more
          /\ UNCHANGED task
       \/ /\ task' = [NoTask EXCEPT !.state = "running",
                                    !.run = call.agent_run_id,
                                    !.thread = call.thread_id]
          /\ call' = [call EXCEPT !.started = now]
          /\ pc' = "waiting"
    /\ UNCHANGED <<now, store, response, sweep, cleanup, other, agents, discovery>>

\* line 390, asyncio.wait_for(background_task, timeout): the task is done
WaitDone ==
    /\ pc = "waiting"
    /\ task.state = "done"
    /\ pc' = "get_result"
    /\ UNCHANGED <<now, store, call, response, task, sweep, cleanup, other,
                   agents, discovery>>

\* line 390: the task raised, wait_for raises the same, line 411 catches it
WaitRaised ==
    /\ pc = "waiting"
    /\ task.state = "raised"
    /\ FinishWith(ExecuteError(task.err), [call EXCEPT !.task_error = task.err])
    /\ CallerOnly

\* line 390: the time is up, wait_for cancels the task and awaits its end
WaitTimeout ==
    /\ TimerDue
    /\ task' = [task EXCEPT !.cancel = TRUE]
    /\ call' = [call EXCEPT !.expired = TRUE]
    /\ UNCHANGED <<now, store, pc, response, sweep, cleanup, other,
                   agents, discovery>>

\* lines 395-399: the cancelled task ended, wait_for raises TimeoutError
WaitCancelled ==
    /\ pc = "waiting"
    /\ task.state = "cancelled"
    /\ pc' = "mark_failed"
    /\ UNCHANGED <<now, store, call, response, task, sweep, cleanup, other,
                   agents, discovery>>

\* lines 401-404 with _mark_agent_run_as_failed (461-473)
MarkTimedOut ==
    /\ pc = "mark_failed"
    /\ \E ok \in BOOLEAN :
         runs' = mark_agent_run_as_failed(runs, call.agent_run_id,
                                          TimedOutMessage, now, ok)
    /\ Finish(TimedOutResult(call.timeout))
    /\ UNCHANGED <<now, threads, messages, response, task,
                   sweep, cleanup, workflows, other, agents, discovery>>

\* ---------------------------------------------- _get_agent_execution_result
\* lines 417-432
ReadRun ==
    /\ pc = "get_result"
    /\ LET run == runs[call.agent_run_id]
           c == [call EXCEPT !.run_status = run.status]
       IN IF run.status = "failed"
          THEN FinishWith(RunFailedResult(run.error_message), c)
          ELSE IF run.status # "completed"
          THEN FinishWith(RunIncomplete(run.status), c)
          ELSE pc' = "get_msgs" /\ call' = c
    /\ CallerOnly

\* lines 434-455
ReadMessages ==
    /\ pc = "get_msgs"
    /\ LET data == AssistantMessages(call.thread_id)
       IN IF data = << >>
          THEN Finish(NoMessages)
          ELSE Finish(Completed(PersistedText(data[Len(data)].content)))
    /\ CallerOnly

\* lines 457-459
ReadFails ==
    /\ pc \in {"get_result", "get_msgs"}
    /\ FinishWith(RetrieveError(StoreError), [call EXCEPT !.faults = 1])
    /\ CallerOnly

\* ------------------------------------------------------ the sub-agent runtime
\* run_agent_background, the task of line 373: it appends the agent's
\* answers to the thread, records the run's outcome while the run is still
\* 'running', and ends by returning, by raising, or cancelled when asked to
RuntimeReplies ==
    /\ task.state = "running"
    /\ Len(AssistantMessages(task.thread)) < MaxReplies
    /\ messages' = Append(messages,
                     [thread_id |-> task.thread, type |-> "assistant",
                      is_llm_message |-> TRUE, agent_id |-> runs[task.run].agent_id,
                      content |-> Reply])
    /\ UNCHANGED <<now, threads, runs, pc, call, response, task,
                   sweep, cleanup, workflows, other, agents, discovery>>

RuntimeRecords ==
    /\ task.state = "running"
    /\ runs[task.run].status = "running"
    /\ \/ runs' = [runs EXCEPT ![task.run] =
                     [@ EXCEPT !.status = "completed", !.completed_at = now]]
       \/ \E e \in RuntimeErrors : runs' = FailRun(runs, task.run, e, now)
    /\ UNCHANGED <<now, threads, messages, pc, call, response,
                   task, sweep, cleanup, workflows, other, agents, discovery>>

RuntimeEnds ==
    /\ task.state = "running"
    /\ \/ task' = [task EXCEPT !.state = "done"]
       \/ \E e \in RuntimeErrors : task' = [task EXCEPT !.state = "raised", !.err = e]
       \/ task.cancel /\ task' = [task EXCEPT !.state = "cancelled"]
    /\ UNCHANGED <<now, store, pc, call, response, sweep, cleanup, other,
                   agents, discovery>>

\* ------------------------------------------------- cleanup_stuck_agent_run
\* lines 477-491 (and 506-508 when the select raises)
CleanupRead(id) ==
    /\ cleanup.pc = "idle"
    /\ \/ cleanup' = [pc |-> "idle", run |-> id, ret |-> "false"]   \* the select raises
       \/ IF id \notin 1..Len(runs)
          THEN cleanup' = [pc |-> "idle", run |-> id, ret |-> "false"]
          ELSE IF runs[id].status \in {"completed", "failed"}
          THEN cleanup' = [pc |-> "idle", run |-> id, ret |-> "true"]
          ELSE cleanup' = [pc |-> "mark", run |-> id, ret |-> "none"]
    /\ UNCHANGED <<now, store, pc, call, response, task, sweep, other,
                   agents, discovery>>

\* lines 493-504 with _mark_agent_run_as_failed (461-473)
CleanupMark ==
    /\ cleanup.pc = "mark"
    /\ \E ok \in BOOLEAN :
         runs' = mark_agent_run_as_failed(runs, cleanup.run, StuckMessage, now, ok)
    /\ cleanup' = [cleanup EXCEPT !.pc = "idle", !.ret = "true"]
    /\ UNCHANGED <<now, threads, messages, pc, call, response,
                   task, sweep, workflows, other, agents, discovery>>

\* ------------------------------------- cleanup_stuck_agent_runs_by_timeout
\* the rows of line 523, in table order
RECURSIVE IdsFrom(_, _)
IdsFrom(i, keep) ==
    IF i > Len(runs) THEN << >>
    ELSE (IF i \in keep THEN <<i>> ELSE << >>) \o IdsFrom(i + 1, keep)

\* the select with a cutoff that is not strict
StuckRunsNotStrict(a, m) ==
    LET cutoff_time == now - m * SecondsPerMinute
    IN IdsFrom(1, {i \in 1..Len(runs) :
                     /\ runs[i].account_id = a
                     /\ runs[i].status = "running"
                     /\ runs[i].started_at <= cutoff_time})

StuckRuns(a, m) ==
    LET cutoff_time == now - m * SecondsPerMinute
    IN IdsFrom(1, {i \in 1..Len(runs) :
                     /\ runs[i].account_id = a
                     /\ runs[i].status = "running"
                     /\ runs[i].started_at < cutoff_time})

\* lines 513-527
SweepSelect(a, m) ==
    /\ sweep.pc = "idle"
    /\ LET stuck == StuckRuns(a, m)
       IN sweep' = IF stuck = << >>
                   THEN [NoSweep EXCEPT !.ret = 0]
                   ELSE [NoSweep EXCEPT !.account_id = a, !.minutes = m,
                                        !.pc = "updating", !.todo = stuck,
                                        !.selected =
                                           {stuck[i] : i \in 1..Len(stuck)}]
    /\ UNCHANGED <<now, store, pc, call, response, task, cleanup, other,
                   agents, discovery>>

\* lines 548-550: the select raises
SweepSelectFails ==
    /\ sweep.pc = "idle"
    /\ sweep' = [NoSweep EXCEPT !.ret = 0]
    /\ UNCHANGED <<now, store, pc, call, response, task, cleanup, other,
                   agents, discovery>>

\* the loop of lines 530-543 moves on; after the last row, lines 545-546
SweepAfter(n, w) ==
    IF Tail(sweep.todo) = << >>
    THEN [NoSweep EXCEPT !.count = n, !.written = w, !.ret = n]
    ELSE [sweep EXCEPT !.todo = Tail(sweep.todo), !.count = n, !.written = w]

\* lines 531-540: the update of one selected row
SweepUpdate ==
    /\ sweep.pc = "updating"
    /\ runs' = FailRun(runs, Head(sweep.todo), SweepMessage(sweep.minutes), now)
    /\ sweep' = SweepAfter(sweep.count + 1, sweep.written \cup {Head(sweep.todo)})
    /\ UNCHANGED <<now, threads, messages, pc, call, response, task, cleanup,
                   workflows, other, agents, discovery>>

\* the update raises and is counted all the same
SweepUpdateFailsCounted ==
    /\ sweep.pc = "updating"
    /\ sweep' = SweepAfter(sweep.count + 1, sweep.written)
    /\ UNCHANGED <<now, store, pc, call, response, task, cleanup, other,
                   agents, discovery>>

\* lines 542-543: the update raises, the loop goes on
SweepUpdateFails ==
    /\ sweep.pc = "updating"
    /\ sweep' = SweepAfter(sweep.count, sweep.written)
    /\ UNCHANGED <<now, store, pc, call, response, task, cleanup, other,
                   agents, discovery>>

\* ---------------------------------------------------------- specification
CallArgs ==
    {<<a, "prompt", NoWorkflow>> : a \in AgentIds}
      \cup {<<a, "workflow", w>> : a \in AgentIds, w \in WorkflowIds \cup {NoWorkflow}}
      \cup {<<"A1", "batch", NoWorkflow>>}

\* the steps call_agent takes by itself once called
CallerStep ==
    \/ VerifyOk
    \/ VerifyDenied
    \/ VerifyFails
    \/ WorkflowLookup
    \/ WorkflowLookupFails
    \/ WorkflowExecuted
    \/ BuildFails
    \/ InsertThread
    \/ InsertMessage
    \/ InsertRun
    \/ StartAgent
    \/ WaitDone
    \/ WaitRaised
    \/ WaitTimeout
    \/ WaitCancelled
    \/ MarkTimedOut
    \/ ReadRun
    \/ ReadMessages
    \/ ReadFails
    \/ RespondStep

Next ==
    \/ Tick
    \/ \E args \in CallArgs, t \in RequestedTimeouts :
         Call(args[1], args[2], args[3], t)
    \/ VerifyOk
    \/ VerifyDenied
    \/ VerifyFails
    \/ WorkflowLookup
    \/ WorkflowLookupFails
    \/ WorkflowExecuted
    \/ BuildFails
    \/ InsertThread
    \/ InsertMessage
    \/ InsertRun
    \/ StartAgent
    \/ WaitDone
    \/ WaitRaised
    \/ WaitTimeout
    \/ WaitCancelled
    \/ MarkTimedOut
    \/ ReadRun
    \/ ReadMessages
    \/ ReadFails
    \/ RespondStep
    \/ RuntimeReplies
    \/ RuntimeRecords
    \/ RuntimeEnds
    \/ \E id \in 1..2 : CleanupRead(id)
    \/ CleanupMark
    \/ \E a \in Accounts, m \in StaleMinutes : SweepSelect(a, m)
    \/ SweepSelectFails
    \/ SweepUpdate
    \/ SweepUpdateFails

Spec == Init /\ [][Next]_vars

\* The sweep for the caller's account is called again and again and the store
\* answers it; the clock runs; call_agent takes its own steps. Nothing is
\* assumed of the runtime task.
LiveSpec ==
    /\ Spec
    /\ WF_vars(Tick)
    /\ WF_vars(CallerStep)
    /\ \A m \in StaleMinutes : SF_vars(SweepSelect(SelfAccount, m))
    /\ SF_vars(SweepUpdate)

\* ------------------------------------- the processing of results by itself
\* call_agent from its arguments to its response, the helper it dispatches
\* to being whatever returns a text
RequestedMaxTokens == {-5, 0, 50, 100, 1000, 4000, 9000}
RequestedOutputModes == {"last_message", "full", "json"}
Transcript ==
    <<"#", " ", "T", "\n", "a", "\n", "b", "\n", "c", "\n", "d", "\n",
      "D", "o", "n", "e", ":", " ", "p", "o", "n", "g", "\n">>
\* a text of n characters that begins with "<" and ends with ">"
Long(c, n) == <<"<">> \o Rep(c, n - 2) \o <<">">>
\* the last line is also the first
Repeating == <<"x", "\n", "a", "\n", "b", "\n", "c", "\n", "d", "\n", "x">>
\* the last line is indented and follows three empty lines
Indented == <<"a", "\n", "\n", "\n", "\n", " ", " ", "b">>
\* the last line is followed by the end of a code fence
Fenced == <<"a", "\n", "b", "\n", Backtick, Backtick, Backtick>>
RawResults ==
    {<<"o", "k">>,
     Transcript,
     Repeating,
     Indented,
     Fenced,
     << >>,
     <<" ", "\n">>,
     <<"#", " ", "T">>,
     Rep("#", FallbackAbove + LongBy),
     Rep("#", FallbackAbove) \o <<" ">>,
     Long("x", MinTokens * CharsPerToken + LongBy),
     Long("y", MaxTokens * CharsPerToken + LongBy),
     <<"Error:", " ", "n", "o">>}
RequestedModels ==
    {None,
     << >>,
     <<"g", "p", "t", "-", "4", "o">>,
     <<"O", "p", "e", "n", "A", "I", "/", "g", "p", "t", "-", "4", "o">>,
     <<"a", "n", "t", "h", "r", "o", "p", "i", "c", "/", "c", "l", "a", "u", "d", "e">>,
     <<"m", "y", "-", "g", "o", "o", "g", "l", "e", "-", "m", "o", "d", "e", "l">>}

\* lines 185-190: the helper returns raw_result
HelperReturns(raw) ==
    /\ pc = "ins_thread"
    /\ Finish(raw)
    /\ CallerOnly

ResultNext ==
    \/ \E mn \in RequestedModels, mt \in RequestedMaxTokens,
          om \in RequestedOutputModes :
         call_agent("A1", <<"ping">>, "prompt", NoWorkflow, mn,
                    DefaultMaxTokens, mt, om)
    \/ VerifyOk
    \/ \E raw \in RawResults : HelperReturns(raw)
    \/ RespondStep

ResultSpec == Init /\ [][ResultNext]_vars

\* --------------------------------------- the reading of a persisted result
\* _get_agent_execution_result from the moment the task of a call is done:
\* the runtime has left its answers in the call's thread, one to two of them
\* or none, another delegation has left one in its own thread after that,
\* and the run is in whatever status
PersistedContents ==
    {<<"D", "o", "n", "e", ":", " ", "p", "o", "n", "g">>,
     JsonObject(<<"p", "o", "n", "g">>),
     Long("z", PersistedLimit),
     Long("z", PersistedLimit + LongBy),
     JsonObject(Long("w", PersistedLimit + LongBy))}
Answers ==
    {<< >>} \cup {<<c>> : c \in PersistedContents}
            \cup {<<c, d>> : c \in PersistedContents, d \in PersistedContents}
Assistant(th, c) ==
    [thread_id |-> th, type |-> "assistant", is_llm_message |-> TRUE,
     agent_id |-> "A1", content |-> c]
DoneCall ==
    [NoCall EXCEPT !.timeout_arg = MinTimeout, !.timeout = MinTimeout,
                   !.model_name = FallbackModel,
                   !.thread_id = 1, !.agent_run_id = 1, !.started = 0]

ReadInit ==
    /\ now = TickSeconds
    /\ threads = [i \in 1..2 |-> NewThread(DoneCall)]
    /\ \E answers \in Answers :
         messages = <<NewMessage(DoneCall),
                      NewMessage([DoneCall EXCEPT !.thread_id = 2])>>
                    \o [i \in 1..Len(answers) |-> Assistant(1, answers[i])]
                    \o <<Assistant(2, <<"o", "t", "h", "e", "r">>)>>
    /\ \E st \in {"running", "completed", "failed"} :
         runs = [i \in 1..2 |->
                   [NewRun([DoneCall EXCEPT !.thread_id = i], 0, SelfAccount)
                      EXCEPT !.status = st,
                             !.completed_at = IF st = "running" THEN NoTime
                                              ELSE TickSeconds,
                             !.error_message = IF st = "failed" THEN <<"boom">>
                                               ELSE NoText]]
    /\ pc = "get_result"
    /\ \E om \in {"last_message", "full"} :
         call = [DoneCall EXCEPT !.output_mode_arg = om, !.output_mode = om]
    /\ response = NoResponse
    /\ task = [NoTask EXCEPT !.state = "done", !.run = 1, !.thread = 1]
    /\ sweep = NoSweep
    /\ cleanup = NoCleanup
    /\ workflows = Workflows
    /\ other = NoOther
    /\ agents = Agents
    /\ discovery = NoDiscovery

ReadNext ==
    \/ ReadRun
    \/ ReadMessages
    \/ ReadFails
    \/ RespondStep

ReadSpec == ReadInit /\ [][ReadNext]_vars

\* ------------------------------------------------- two calls at a time
\* two call_agent coroutines on the one event loop and the one store: at
\* an await the loop may go on with the other one, which then is the one
\* taking steps
Switch ==
    /\ other' = [pc |-> pc, call |-> call, response |-> response, task |-> task]
    /\ pc' = other.pc
    /\ call' = other.call
    /\ response' = other.response
    /\ task' = other.task
    /\ UNCHANGED <<now, store, sweep, cleanup, agents, discovery>>

\* the clock, up to the deadline of a call that started with it
PairTick == now < MinTimeout /\ Tick

PairNext ==
    \/ Switch
    \/ PairTick
    \/ Call("A1", "prompt", NoWorkflow, MinTimeout)
    \/ VerifyOk
    \/ InsertThread
    \/ InsertMessage
    \/ InsertRun
    \/ StartAgent
    \/ WaitDone
    \/ WaitTimeout
    \/ WaitCancelled
    \/ MarkTimedOut
    \/ ReadRun
    \/ ReadMessages
    \/ RespondStep
    \/ RuntimeRecords
    \/ RuntimeEnds

PairSpec == Init /\ [][PairNext]_vars

\* ------------------------------------------------- the build by itself
\* two delegations built one after the other, with or without a workflow,
\* over a table whose workflows are active, the second with no description
Messages == {<<"ping">>, <<"say ", "pong">>}
BuildTables ==
    {[w \in {"W1", "W2"} |->
        [agent_id |-> "A1",
         name |-> IF w = "W1" THEN "daily" ELSE "old",
         description |-> IF w = "W1" THEN <<"the daily report">> ELSE d,
         status |-> "active"]] : d \in {None, << >>}}
BuildRequests ==
    {<<"prompt", NoWorkflow>>, <<"workflow", "W1">>, <<"workflow", "W2">>}

BuildInit ==
    /\ now = 0
    /\ threads = << >>
    /\ messages = << >>
    /\ runs = << >>
    /\ pc = "idle"
    /\ call = NoCall
    /\ response = NoResponse
    /\ task = NoTask
    /\ sweep = NoSweep
    /\ cleanup = NoCleanup
    /\ workflows \in BuildTables
    /\ other = NoOther
    /\ agents = Agents
    /\ discovery = NoDiscovery

BuildNext ==
    \/ Switch
    \/ \E msg \in Messages, req \in BuildRequests :
         call_agent("A1", msg, req[1], req[2], None, MinTimeout,
                    DefaultMaxTokens, "last_message")
    \/ VerifyOk
    \/ WorkflowLookup
    \/ WorkflowExecuted
    \/ BuildFails
    \/ InsertThread
    \/ InsertMessage
    \/ InsertRun
    \/ RespondStep

BuildSpec == BuildInit /\ [][BuildNext]_vars

\* ------------------------------------------------------- discover_agents
\* .order('created_at', desc=True): the rows, the latest first
RECURSIVE SortedDesc(_)
SortedDesc(rows) ==
    IF rows = {} THEN << >>
    ELSE LET r == CHOOSE r \in rows :
                    \A q \in rows : q.created_at <= r.created_at
         IN <<r>> \o SortedDesc(rows \ {r})

\* lines 72-76: what is listed of a workflow
WorkflowEntry(w) ==
    [workflow_id |-> w, name |-> workflows[w].name,
     description |-> workflows[w].description]

\* line 68: the rows of agent_workflows of one agent, in whatever order the
\* store gives them
WorkflowsOf(a) == {w \in DOMAIN workflows : workflows[w].agent_id = a}
Orders(ids) ==
    {o \in [1..Cardinality(ids) -> ids] :
        \A i, j \in 1..Cardinality(ids) : o[i] = o[j] => i = j}

\* lines 81-86
AgentEntry(agent, wfs) ==
    [agent_id |-> agent.agent_id, name |-> agent.name,
     description |-> agent.description, workflows |-> wfs]

\* lines 44-51: the agents of the account are selected
discover_agents ==
    /\ discovery.pc = "idle"
    /\ LET data == SortedDesc({r \in agents :
                                 r.account_id = discovery.account_id})
       IN discovery' =
            IF data = << >>
            THEN [discovery EXCEPT !.pc = "returned",
                                   !.response = [kind |-> "success",
                                                 result |-> << >>]]
            ELSE [discovery EXCEPT !.pc = "listing", !.todo = data]
    /\ UNCHANGED <<now, store, pc, call, response, task, sweep, cleanup,
                   other, agents>>

\* lines 90-92: that select raises
DiscoverSelectFails ==
    /\ discovery.pc = "idle"
    /\ discovery' = [discovery EXCEPT
                       !.pc = "returned",
                       !.response = [kind |-> "failure",
                                     result |-> <<"Error discovering agents: ",
                                                  StoreError>>]]
    /\ UNCHANGED <<now, store, pc, call, response, task, sweep, cleanup,
                   other, agents>>

\* the loop of line 58 moves on; after the last row, line 88
DiscoverAfter(listed, failed) ==
    IF Tail(discovery.todo) = << >>
    THEN [discovery EXCEPT !.pc = "returned", !.todo = << >>,
                           !.agents = listed, !.failed = failed,
                           !.response = [kind |-> "success", result |-> listed]]
    ELSE [discovery EXCEPT !.todo = Tail(discovery.todo),
                           !.agents = listed, !.failed = failed]

\* lines 59-86: one agent is skipped, or listed with its workflows
DiscoverAgent ==
    /\ discovery.pc = "listing"
    /\ LET agent == Head(discovery.todo)
       IN IF agent.agent_id = discovery.current_agent_id
          THEN discovery' = DiscoverAfter(discovery.agents, discovery.failed)
          ELSE \E o \in Orders(WorkflowsOf(agent.agent_id)) :
                 discovery' =
                   DiscoverAfter(
                     Append(discovery.agents,
                            AgentEntry(agent,
                                       [i \in DOMAIN o |-> WorkflowEntry(o[i])])),
                     discovery.failed)
    /\ UNCHANGED <<now, store, pc, call, response, task, sweep, cleanup,
                   other, agents>>

\* the failure of one agent's workflows failing the discovery
DiscoverWorkflowsFailAborts ==
    /\ discovery.pc = "listing"
    /\ Head(discovery.todo).agent_id # discovery.current_agent_id
    /\ discovery' = [discovery EXCEPT
                       !.pc = "returned",
                       !.failed = @ \cup {Head(discovery.todo).agent_id},
                       !.response = [kind |-> "failure",
                                     result |-> <<"Error discovering agents: ",
                                                  StoreError>>]]
    /\ UNCHANGED <<now, store, pc, call, response, task, sweep, cleanup,
                   other, agents>>

\* lines 77-86: the select of line 68 raises, the agent is listed without
\* workflows
DiscoverWorkflowsFail ==
    /\ discovery.pc = "listing"
    /\ Head(discovery.todo).agent_id # discovery.current_agent_id
    /\ discovery' =
         DiscoverAfter(
           Append(discovery.agents, AgentEntry(Head(discovery.todo), << >>)),
           discovery.failed \cup {Head(discovery.todo).agent_id})
    /\ UNCHANGED <<now, store, pc, call, response, task, sweep, cleanup,
                   other, agents>>

\* the tool of any account, for any calling agent or none, over any table
\* of these agents; two of them have workflows
AgentPool ==
    {AgentRow("A1", "alpha", <<"first">>, "acctA", 1),
     AgentRow("A2", "beta", None, "acctA", 2),
     AgentRow("A3", "gamma", << >>, "acctA", 3),
     AgentRow("B1", "delta", None, "acctB", 4)}
DiscoverWorkflows ==
    [w \in DOMAIN Workflows \cup {"W3"} |->
        IF w = "W3"
        THEN [agent_id |-> "A2", name |-> "weekly", description |-> << >>,
              status |-> "active"]
        ELSE Workflows[w]]

DiscoverInit ==
    /\ now = 0
    /\ threads = << >>
    /\ messages = << >>
    /\ runs = << >>
    /\ pc = "idle"
    /\ call = NoCall
    /\ response = NoResponse
    /\ task = NoTask
    /\ sweep = NoSweep
    /\ cleanup = NoCleanup
    /\ workflows = DiscoverWorkflows
    /\ other = NoOther
    /\ agents \in SUBSET AgentPool
    /\ \E acct \in Accounts,
          cur \in {r.agent_id : r \in AgentPool} \cup {NoAgentId} :
         discovery = [NoDiscovery EXCEPT !.account_id = acct,
                                         !.current_agent_id = cur]

DiscoverNext ==
    \/ discover_agents
    \/ DiscoverSelectFails
    \/ DiscoverAgent
    \/ DiscoverWorkflowsFail

DiscoverSpec == DiscoverInit /\ [][DiscoverNext]_vars

\* ------------------------------------------ the maintenance operations
\* the sweep and the single-run cleanup over a table that holds two runs of
\* whatever account, status and age
SweepNow == 180
StartTimes == {0, 60, 120, 170}
RunRows ==
    {[thread_id |-> 0, agent_id |-> "A1", status |-> st, started_at |-> t,
      completed_at |-> IF st = "running" THEN NoTime ELSE t,
      error_message |-> IF st = "failed" THEN <<"boom">> ELSE NoText,
      account_id |-> a, timeout |-> MinTimeout, workflow_execution |-> FALSE] :
        st \in {"running", "completed", "failed"}, t \in StartTimes,
        a \in Accounts \cup {NoAccount}}

TwoRuns ==
    {<<[r1 EXCEPT !.thread_id = 1], [r2 EXCEPT !.thread_id = 2]>> :
        r1 \in RunRows, r2 \in RunRows}

\* the thread and the seed message each of those runs was built with
ThreadOf(r) ==
    [NewThread([NoCall EXCEPT !.timeout = r.timeout])
        EXCEPT !.account_id = IF r.account_id = NoAccount THEN SelfAccount
                              ELSE r.account_id]

SweepInit ==
    /\ now = SweepNow
    /\ runs \in TwoRuns
    /\ threads = [i \in 1..2 |-> ThreadOf(runs[i])]
    /\ messages = [i \in 1..2 |-> NewMessage([NoCall EXCEPT !.thread_id = i])]
    /\ pc = "idle"
    /\ call = NoCall
    /\ response = NoResponse
    /\ task = NoTask
    /\ sweep = NoSweep
    /\ cleanup = NoCleanup
    /\ workflows = Workflows
    /\ other = NoOther
    /\ agents = Agents
    /\ discovery = NoDiscovery

SweepNext ==
    \/ \E a \in Accounts, m \in StaleMinutes : SweepSelect(a, m)
    \/ SweepSelectFails
    \/ SweepUpdate
    \/ SweepUpdateFails
    \/ \E id \in 1..2 : CleanupRead(id)
    \/ CleanupMark

SweepSpec == SweepInit /\ [][SweepNext]_vars

\* ------------------------------------------------------------------ claims
RunIds == 1..Len(runs)
TheRun == runs[call.agent_run_id]

\* C1: once a run's status is 'completed' or 'failed', no step changes it to
\* a different status.
StatusIsMonotonic ==
    [][\A r \in RunIds :
         Terminal(runs[r].status) => runs'[r].status = runs[r].status]_vars

\* the messages of the three finalizers: the timeout path, the single-run
\* cleanup and the sweep
FinalizerMessages ==
    {TimedOutMessage, StuckMessage} \cup {SweepMessage(m) : m \in StaleMinutes}

\* C2: finalizing a run that a finalizer has already failed is a no-op: its
\* status, error_message and completed_at stay what the first one wrote.
FirstWriterWins ==
    [][\A r \in RunIds :
         (runs[r].status = "failed" /\ runs[r].error_message \in FinalizerMessages) =>
           /\ runs'[r].status = runs[r].status
           /\ runs'[r].error_message = runs[r].error_message
           /\ runs'[r].completed_at = runs[r].completed_at]_vars

\* C3: when the bounded wait expired, call_agent returns a failed response
\* and leaves the run 'failed' with an error_message containing "timed out".
ExpiredEndsFailed ==
    (pc = "returned" /\ call.expired) =>
        /\ TheRun.status = "failed"
        /\ Has(TheRun.error_message, "timed out")
        /\ response.status = "failed"

\* C4: when the task raised before the deadline, the run is 'failed' and its
\* error_message is the task's error when call_agent returns.
RuntimeErrorIsRecorded ==
    (pc = "returned" /\ call.task_error # NoText /\ ~call.expired) =>
        /\ TheRun.status = "failed"
        /\ TheRun.error_message = call.task_error

\* C5: the run call_agent inserted is 'completed' or 'failed' when
\* call_agent returns.
RunIsTerminalAtReturn ==
    (pc = "returned" /\ call.agent_run_id # 0) => Terminal(TheRun.status)

\* C6: under repeated sweeps of the caller's account, every run that is
\* 'running' is eventually 'completed' or 'failed'.
RunningLeadsToTerminal ==
    \A r \in {1} :
        (r \in RunIds /\ runs[r].status = "running")
            ~> (r \in RunIds /\ Terminal(runs[r].status))

\* C7: from the start of the runtime until call_agent returns, no more than
\* the effective timeout plus the grace period passes.
WaitIsBounded ==
    (pc \notin {"idle", "returned"} /\ call.started # NoTime) =>
        now - call.started <= call.timeout + Grace

\* C8: when the status read from the run is not 'completed', or the workflow
\* execution reports failure, the response says 'failed'.
FailureIsReturnedFailed ==
    (pc = "returned" /\ (call.run_status \notin {"", "completed"} \/ call.wf_failed))
        => response.status = "failed"

\* C9: call_agent returns a success or a failure response whatever
\* collaborator fails; no fault reaches its caller.
NoFaultEscapes ==
    pc = "returned" =>
        /\ response.kind \in {"success", "failure"}
        /\ response.status \in {"completed", "failed", ""}
        /\ response.kind = "success" <=> response.status = "completed"

CollaboratorFailedAndReturned ==
    /\ pc = "returned"
    /\ call.faults = 1
    /\ response.kind = "failure"
    /\ Has(response.result, "Database connection error")

\* C10: the timeout of the bounded wait, of the Thread's metadata and of the
\* AgentRun's metadata is the request clamped to [60, 1800].
Clamped(t) == IF t < 60 THEN 60 ELSE IF t > 1800 THEN 1800 ELSE t

TimeoutIsClamped ==
    LET eff == Clamped(call.timeout_arg)
    IN /\ call.thread_id # 0 => threads[call.thread_id].timeout = eff
       /\ call.agent_run_id # 0 => TheRun.timeout = eff
       /\ call.expired => now >= call.started + eff
       /\ (pc = "waiting" /\ task.state = "running" /\ ~call.expired)
            => now < call.started + eff + TickSeconds

ClampedWaitExpired ==
    /\ call.expired
    /\ call.timeout_arg < 60
    /\ now = call.started + 60
    /\ TheRun.timeout = 60
    /\ threads[call.thread_id].timeout = 60

\* C11: the max_tokens echoed in the response, and the budget of the
\* full-mode truncation, is the request clamped to [100, 4000].
ClampedTokens(m) == IF m < 100 THEN 100 ELSE IF m > 4000 THEN 4000 ELSE m

MaxTokensIsClamped ==
    (pc = "returned" /\ response.status \in {"completed", "failed"}) =>
        LET eff == ClampedTokens(call.max_tokens_arg)
            raw == call.raw_result
            budget == eff * 4
        IN /\ response.max_tokens = eff
           /\ (response.status = "completed" /\ call.output_mode_arg = "full") =>
                IF Len(raw) <= budget THEN response.result = raw
                ELSE /\ Len(response.result) = budget + 3
                     /\ SubSeq(response.result, 4, budget + 3)
                          = SubSeq(raw, Len(raw) - budget + 1, Len(raw))

LowMaxTokensRaised ==
    /\ pc = "returned"
    /\ call.max_tokens_arg = 50
    /\ call.output_mode_arg = "full"
    /\ response.max_tokens = 100
    /\ Len(call.raw_result) = 400 + LongBy
    /\ Len(response.result) = 403

\* no record of any table exists
NoRecords == threads = << >> /\ messages = << >> /\ runs = << >>

\* C12: a call in workflow mode without a workflow_id returns the failure
\* "workflow_id is required" and writes nothing to the store.
WorkflowModeNeedsItsId ==
    (pc = "returned" /\ call.execution_mode = "workflow"
                     /\ call.workflow_id = NoWorkflow) =>
        /\ response.kind = "failure"
        /\ response.result = WorkflowIdRequired
        /\ NoRecords
        /\ task = NoTask

MissingWorkflowIdRefused ==
    /\ pc = "returned"
    /\ call.execution_mode = "workflow"
    /\ call.workflow_id = NoWorkflow
    /\ call.agent_id = "A1"
    /\ response.kind = "failure"
    /\ Has(response.result, " workflow_id is required when execution_mode is 'workflow'")
    /\ NoRecords

\* the workflow of the call is one of the target agent and is active
WorkflowUsable(c) ==
    /\ c.workflow_id \in DOMAIN Workflows
    /\ Workflows[c.workflow_id].agent_id = c.agent_id
    /\ Workflows[c.workflow_id].status = "active"

\* C13: a call in workflow mode whose workflow is not found for the agent or
\* is not active creates no Thread, Message or AgentRun, starts no task, and
\* returns a failed response.
UnusableWorkflowFailsFast ==
    (call.execution_mode = "workflow" /\ ~WorkflowUsable(call)) =>
        /\ NoRecords
        /\ task = NoTask
        /\ pc = "returned" => response.kind = "failure"

\* C14: a call for an agent that is absent or of another account creates no
\* record, starts no task and returns a failure; the access check writes
\* nothing.
DeniedCreatesNothing ==
    /\ pc = "verify" => NoRecords
    /\ (pc # "idle" /\ AgentOwner[call.agent_id] # SelfAccount) =>
          /\ NoRecords
          /\ task = NoTask
          /\ pc \in {"verify", "returned"}
          /\ pc = "returned" =>
                (response.kind = "failure" /\ response.status # "completed")

ForeignAgentDenied ==
    /\ pc = "returned"
    /\ call.agent_id = "B1"
    /\ call.execution_mode = "prompt"
    /\ call.faults = 0
    /\ response.kind = "failure"
    /\ Has(response.result, "Agent not found or access denied")
    /\ NoRecords

\* the build of the call ended at a store write that raised
BuildWriteFailed ==
    /\ pc = "returned"
    /\ call.raw_result = ExecuteError(StoreError)
    /\ call.agent_run_id = 0

\* the records the call wrote before are there as written, and no task runs
PartialRecordsLeft ==
    /\ task = NoTask
    /\ runs = << >>
    /\ threads = IF call.thread_id = 0 THEN << >> ELSE <<NewThread(call)>>
    /\ messages \in {<< >>, <<NewMessage(call)>>}

\* C15: when the Thread, Message or AgentRun insert raises, call_agent returns
\* a failed response, no task is started, and what the call had written is
\* left as it is.
BuildFailureIsReturnedFailed ==
    BuildWriteFailed =>
        /\ response.status = "failed"
        /\ PartialRecordsLeft

\* the runs of account a that are 'running' and started more than m minutes
\* before now
Stale(a, m) ==
    {r \in RunIds : /\ runs[r].account_id = a
                    /\ runs[r].status = "running"
                    /\ now - runs[r].started_at > m * 60}

\* C16: the sweep selects exactly the runs of the account that are 'running'
\* and started more than staleAfterMinutes ago; each update it makes sets the
\* run 'failed' with "Agent run timed out after N minutes" and a completion
\* time; and when it has updated all it selected, all of them are 'failed'.
SweepFailsStaleRuns ==
    [][/\ (sweep.pc = "idle" /\ sweep'.pc = "updating") =>
             sweep'.selected = Stale(sweep'.account_id, sweep'.minutes)
       /\ (sweep.pc = "updating" /\ sweep'.count = sweep.count + 1) =>
             LET r == Head(sweep.todo)
             IN /\ runs'[r].status = "failed"
                /\ runs'[r].error_message = SweepMessage(sweep.minutes)
                /\ runs'[r].completed_at = now
       /\ (sweep.pc = "updating" /\ sweep'.pc = "idle"
             /\ sweep'.count = Cardinality(sweep.selected)) =>
             \A r \in sweep.selected : runs'[r].status = "failed"]_vars

TwoStaleRunsSwept ==
    /\ sweep.pc = "idle"
    /\ sweep.ret = 2
    /\ \A r \in {1, 2} : /\ runs[r].status = "failed"
                         /\ runs[r].error_message = SweepMessage(2)
                         /\ runs[r].completed_at = now
                         /\ runs[r].started_at < now - 120

\* C17: no update of a sweep fails a run that is 'running' and whose time
\* since its start is below the timeout recorded in it.
RecordedTimeoutIsAuthoritative ==
    [][\A r \in RunIds :
         (/\ sweep.pc = "updating"
          /\ Head(sweep.todo) = r
          /\ sweep'.count = sweep.count + 1
          /\ runs[r].status = "running")
            => now - runs[r].started_at >= runs[r].timeout]_vars

\* C18: once the bounded wait has expired, call_agent goes on to record the
\* failure without waiting for the task to end: while the failure is not yet
\* recorded, no time has passed since the deadline.
TimeoutIsRecordedAtDeadline ==
    (call.expired /\ pc \in {"waiting", "mark_failed"}) =>
        now = call.started + call.timeout

\* call_agent returned, and its arguments had passed the validation, the
\* access check and, in workflow mode, the check of the workflow, the store
\* having answered both checks
PassedChecks ==
    /\ pc = "returned"
    /\ call.execution_mode \in {"prompt", "workflow"}
    /\ call.execution_mode = "workflow" => WorkflowUsable(call)
    /\ AgentOwner[call.agent_id] = SelfAccount
    /\ response.result # CallError(DatabaseError)
    /\ call.raw_result # WorkflowError(StoreError)

\* C19: a call that passed its checks has created exactly one AgentRun, and
\* no call creates more than one.
ExactlyOneRunPerAttempt ==
    /\ Len(runs) <= 1
    /\ PassedChecks => Len(runs) = 1

\* the messages of thread th
MessagesOf(ms, th) == SelectSeq(ms, LAMBDA m : m.thread_id = th)

\* what holds of the records at every moment of a build
BuildState ==
    /\ \A i \in 1..Len(messages) : messages[i].thread_id \in 1..Len(threads)
    /\ \A r \in RunIds : MessagesOf(messages, runs[r].thread_id) # << >>
    /\ task.state # "none" =>
          (task.run \in RunIds /\ runs[task.run].thread_id = task.thread)
    /\ \A th \in 1..Len(threads) :
          LET own == SelectSeq(MessagesOf(messages, th),
                               LAMBDA m : m.type # "assistant")
          IN own \in {<< >>, <<NewMessage(call)>>}

\* what holds of every step that inserts a run, starts the task or adds a
\* message
BuildSteps ==
    /\ Len(runs') > Len(runs) => runs'[Len(runs')].status = "running"
    /\ (task.state = "none" /\ task'.state = "running") =>
          MessagesOf(messages, task'.thread) = <<NewMessage(call)>>
    /\ (Len(messages') > Len(messages)
          /\ messages'[Len(messages')].type # "assistant") =>
          MessagesOf(messages, messages'[Len(messages')].thread_id) = << >>

\* C20: a Message is inserted only into a Thread that exists, an AgentRun
\* only for a Thread that holds its seed Message, the task is started only
\* for an AgentRun that exists and was inserted 'running'; when the task is
\* started its Thread holds the seed user Message and nothing else, and no
\* Message that is not the runtime's is ever added to it.
BuildIsOrdered == []BuildState /\ [][BuildSteps]_vars

RuntimeStartedOnSeed ==
    /\ pc = "waiting"
    /\ task.state = "running"
    /\ now = call.started
    /\ messages = <<NewMessage(call)>>
    /\ messages[1].type = "user"
    /\ runs[task.run].status = "running"

\* the request names one of the four providers, in whatever case
Recognized(m) ==
    /\ m # None
    /\ \E p \in Providers : \E i \in 0..Len(m) :
          /\ i + Len(p) <= Len(m)
          /\ \A k \in 1..Len(p) : Lower(<<m[i + k]>>) = <<p[k]>>

\* C22: the model a call uses is the requested one, unchanged, when the
\* request contains openrouter, anthropic, openai or google in whatever
\* case, and the fixed default model for every other request, an absent or
\* empty one included; it is a function of the request alone.
ModelIsResolved ==
    pc \notin {"idle", "verify"} =>
        /\ call.model_name = IF Recognized(call.model_arg) THEN call.model_arg
                             ELSE FallbackModel
        /\ pc = "returned" => response.model_used = call.model_name

MixedCaseProviderKept ==
    /\ pc = "returned"
    /\ Contains(call.model_arg, <<"O", "p", "e", "n", "A", "I">>)
    /\ response.model_used = call.model_arg
    /\ response.status = "completed"

\* C23: a call whose output_mode is neither 'last_message' nor 'full' is not
\* refused: its response is the one the same call gives with 'last_message',
\* and it echoes 'last_message'.
UnknownOutputModeDefaults ==
    (pc = "returned" /\ call.output_mode_arg \notin {"last_message", "full"}) =>
        /\ response.output_mode = "last_message"
        /\ response.status = "failed" <=> Has(call.raw_result, "Error:")
        /\ response.status = "completed" =>
              /\ response.result = extract_last_message(call.raw_result)
              /\ response.raw_result = call.raw_result
        /\ response = ResponseData([call EXCEPT !.output_mode = "last_message"])

UnknownOutputModeExtracted ==
    /\ pc = "returned"
    /\ call.output_mode_arg = "json"
    /\ call.raw_result = Transcript
    /\ response.status = "completed"
    /\ response.output_mode = "last_message"
    /\ response.result = <<"b", "\n", "c", "\n", "d", "\n",
                           "D", "o", "n", "e", ":", " ", "p", "o", "n", "g">>

\* the lines of a transcript and, of them, the substantive ones: not empty
\* and neither a heading nor a fence
LinesOf(raw) == SplitFrom(Strip(raw), 1)
Substantive(raw) ==
    {i \in 1..Len(LinesOf(raw)) : Substantial(LinesOf(raw)[i])}
LastSubstantive(raw) ==
    CHOOSE i \in Substantive(raw) : \A k \in Substantive(raw) : k <= i

\* call_agent returned what it extracted from a raw_result that has a
\* substantive line
ExtractedFromSubstantive ==
    /\ pc = "returned"
    /\ response.status = "completed"
    /\ response.output_mode = "last_message"
    /\ Substantive(call.raw_result) # {}

\* C24: what is extracted from a transcript that has a substantive line
\* begins no more than 3 lines before the last substantive line, also when
\* the text of that line occurs earlier in the transcript.
ContextIsThreeLines ==
    ExtractedFromSubstantive =>
        LET lines == LinesOf(call.raw_result)
            last == LastSubstantive(call.raw_result)
        IN \E first \in Max(1, last - 3)..last :
             response.result = Strip(JoinLines(SubSeq(lines, first, Len(lines))))

\* C25, as stated: what is extracted from a transcript that has a
\* substantive line contains the last substantive line, character for
\* character.
LastLineIsExtractedAsWritten ==
    ExtractedFromSubstantive =>
        Contains(response.result,
                 LinesOf(call.raw_result)[LastSubstantive(call.raw_result)])

\* C25, amended: what is extracted from a transcript that has a substantive
\* line contains the last substantive line without the whitespace around it.
LastLineIsExtracted ==
    ExtractedFromSubstantive =>
        Contains(response.result,
                 Strip(LinesOf(call.raw_result)[LastSubstantive(call.raw_result)]))

DonePongExtracted ==
    /\ ExtractedFromSubstantive
    /\ call.raw_result = Transcript
    /\ Contains(response.result, <<"D", "o", "n", "e", ":", " ", "p", "o", "n", "g">>)
    /\ ~Contains(response.result, <<"#">>)

\* call_agent returned what it extracted from a raw_result that has no
\* substantive line
ExtractedWithoutSubstantive ==
    /\ pc = "returned"
    /\ response.status = "completed"
    /\ response.output_mode = "last_message"
    /\ Substantive(call.raw_result) = {}

\* C26: what is extracted from a transcript without a substantive line is
\* the transcript itself when it has at most 100 characters, and its last
\* fifth (rounded down or up) when it has more.
NoSubstantiveLineFallsBack ==
    ExtractedWithoutSubstantive =>
        LET raw == call.raw_result
            n == Len(raw)
        IN IF n <= 100 THEN response.result = raw
           ELSE \E k \in {n \div 5, (n + 4) \div 5} :
                  response.result = SubSeq(raw, n - k + 1, n)

\* C27: in full mode with budget b the result is the raw_result itself when
\* that has at most 4*b characters; otherwise it is a prefix that states how
\* many characters were left out, raw_result's length less 4*b, followed by
\* exactly the last 4*b characters of raw_result.
FullModeKeepsTheTail ==
    (pc = "returned" /\ response.status = "completed"
                     /\ response.output_mode = "full") =>
        LET raw == call.raw_result
            n == Len(raw)
            b == response.max_tokens
        IN IF n <= 4 * b THEN response.result = raw
           ELSE /\ response.result =
                     <<"...[truncated ", ToString(n - 4 * b), " characters]...\n">>
                        \o SubSeq(raw, n - 4 * b + 1, n)
                /\ Len(response.result) = 4 * b + 3
                /\ response.result[Len(response.result)] = raw[n]

LongResultLosesItsHead ==
    /\ pc = "returned"
    /\ response.output_mode = "full"
    /\ response.max_tokens = 4000
    /\ Len(call.raw_result) = 16000 + LongBy
    /\ call.raw_result[1] = "<"
    /\ response.result[2] = ToString(LongBy)
    /\ response.result[4] = "y"
    /\ response.result[Len(response.result)] = ">"

\* the text of the last assistant message of the call's thread
LastAnswer ==
    LET own == {i \in 1..Len(messages) : /\ messages[i].thread_id = call.thread_id
                                          /\ messages[i].type = "assistant"}
        last == CHOOSE i \in own : \A k \in own : k <= i
        c == messages[last].content
    IN IF c[1] = JsonOpen THEN SubSeq(c, 2, Len(c) - 1) ELSE c

\* the run was read 'completed' and the thread holds an answer
AnswerWasRead ==
    /\ pc \in {"respond", "returned"}
    /\ call.run_status = "completed"
    /\ call.faults = 0
    /\ \E i \in 1..Len(messages) : /\ messages[i].thread_id = call.thread_id
                                     /\ messages[i].type = "assistant"

\* C28: the persisted result is that of the last assistant message of the
\* run's Thread: in full when it has at most 2000 characters, otherwise its
\* first 1900 characters followed by the elision marker.
PersistedResultIsCut ==
    AnswerWasRead =>
        LET head == <<"Agent execution completed successfully:", "\n", "\n">>
            marker == <<"\n", "\n", "[... response truncated for brevity ...]">>
        IN call.raw_result =
             head \o (IF Len(LastAnswer) <= 2000 THEN LastAnswer
                      ELSE SubSeq(LastAnswer, 1, 1900) \o marker)

LongAnswerCut ==
    /\ AnswerWasRead
    /\ Len(LastAnswer) = 2000 + LongBy
    /\ LastAnswer[1] = "<"
    /\ Len(call.raw_result) = 3 + 1900 + 3
    /\ call.raw_result[4] = "<"
    /\ call.raw_result[1904] = "\n"

\* the run was read 'completed' and the thread holds no answer
NoAnswerToRead ==
    /\ pc = "returned"
    /\ call.run_status = "completed"
    /\ \A i \in 1..Len(messages) : ~(/\ messages[i].thread_id = call.thread_id
                                       /\ messages[i].type = "assistant")

\* C29: when the run is read 'completed' and its Thread holds no assistant
\* message, call_agent returns a success response with status 'completed',
\* whose result, the store having answered, is the text that says so.
CompletedWithoutAnswerIsNotFailed ==
    NoAnswerToRead =>
        /\ response.kind = "success"
        /\ response.status = "completed"
        /\ call.faults = 0 =>
              response.result = <<"Agent completed but no response messages found">>

NoAnswerExplained ==
    /\ NoAnswerToRead
    /\ call.faults = 0
    /\ runs[call.agent_run_id].status = "completed"
    /\ response.status = "completed"
    /\ Has(response.result, "Agent completed but no response messages found")

\* C30: no step of call_agent in either mode, of the sweep or of the
\* single-run cleanup changes the agent_workflows table.
WorkflowsAreReadOnly == [][workflows' = workflows]_vars

WorkflowRanAndIsAsItWas ==
    /\ pc = "returned"
    /\ call.execution_mode = "workflow"
    /\ call.workflow_id = "W1"
    /\ response.status = "completed"
    /\ sweep.ret = 1
    /\ cleanup.ret = "true"
    /\ workflows = Workflows

\* the records delegation d has made are its own: its run is of its
\* thread, and so is the task it started
OwnRecords(d) ==
    /\ d.call.thread_id # 0 => d.call.thread_id \in 1..Len(threads)
    /\ d.call.agent_run_id # 0 =>
          /\ d.call.agent_run_id \in RunIds
          /\ runs[d.call.agent_run_id].thread_id = d.call.thread_id
    /\ d.task.state # "none" =>
          /\ d.task.run = d.call.agent_run_id
          /\ d.task.thread = d.call.thread_id

\* what holds of the records of two delegations at every moment
PairState ==
    LET this == [pc |-> pc, call |-> call, response |-> response, task |-> task]
    IN /\ OwnRecords(this)
       /\ OwnRecords(other)
       /\ call.thread_id # 0 => call.thread_id # other.call.thread_id
       /\ call.agent_run_id # 0 => call.agent_run_id # other.call.agent_run_id
       /\ \A th \in 1..Len(threads) : Len(MessagesOf(messages, th)) <= 1
       /\ \A th \in 1..Len(threads) :
             Cardinality({r \in RunIds : runs[r].thread_id = th}) <= 1

\* what holds of every step one delegation takes while the other waits: the
\* other's Thread, Messages and AgentRun stay as they are, and a Thread the
\* step takes for itself is a new one
PairSteps ==
    other' = other =>
        LET th == other.call.thread_id
            run == other.call.agent_run_id
        IN /\ th # 0 => /\ threads'[th] = threads[th]
                        /\ MessagesOf(messages', th) = MessagesOf(messages, th)
           /\ run # 0 => runs'[run] = runs[run]
           /\ call'.thread_id # call.thread_id =>
                 /\ call'.thread_id = Len(threads) + 1
                 /\ Len(threads') = Len(threads) + 1
           /\ \A t \in 1..Len(threads) : threads'[t] = threads[t]

\* C21: two delegations over the one store never share records: each builds
\* a Thread of its own that was not there before, its seed Message and its
\* AgentRun are of that Thread alone, and no step of one delegation changes
\* the Thread, the Messages or the AgentRun of the other.
DelegationsArePrivate == []PairState /\ [][PairSteps]_vars

BothTimedOutApart ==
    /\ pc = "returned"
    /\ other.pc = "returned"
    /\ call.expired
    /\ other.call.expired
    /\ call.thread_id = 2
    /\ other.call.thread_id = 1
    /\ call.agent_run_id # other.call.agent_run_id
    /\ \A r \in {1, 2} : runs[r].error_message = TimedOutMessage

\* a step of the sweep's loop: one selected row is updated or its update raises
SweepWrites == sweep.pc = "updating" /\ sweep' # sweep

\* the runs a sweep of account a with threshold m has no business with, as
\* they are when it writes
NotForSweep(a, m) ==
    {r \in RunIds : \/ runs[r].account_id # a
                    \/ Terminal(runs[r].status)
                    \/ /\ runs[r].status = "running"
                       /\ now - runs[r].started_at < m * SecondsPerMinute}

\* C31: a write of the sweep leaves as it was every run of another account,
\* every run that is 'completed' or 'failed' when the sweep writes and every
\* running run started less than staleAfterMinutes ago; the sweep writes no
\* Thread and no Message.
SweepSparesTheRest ==
    [][sweep' # sweep =>
          /\ threads' = threads
          /\ messages' = messages
          /\ SweepWrites =>
               \A r \in NotForSweep(sweep.account_id, sweep.minutes) :
                   runs'[r] = runs[r]]_vars

\* C32: each step of the sweep's loop either writes the row it is at as
\* 'failed' and counts it, or writes nothing and counts nothing, and in both
\* cases goes on to the next selected row; the sweep returns the number counted
\* when the rows are done; a sweep that returns without having selected
\* anything, its query having failed or found nothing, returns 0 and writes no
\* run.
SweepCountsItsWrites ==
    [][/\ SweepWrites =>
            LET r == Head(sweep.todo)
            IN /\ \/ /\ runs' = FailRun(runs, r, SweepMessage(sweep.minutes), now)
                     /\ runs' # runs
                     /\ sweep'.count = sweep.count + 1
                  \/ /\ runs' = runs
                     /\ sweep'.count = sweep.count
               /\ IF Tail(sweep.todo) = << >>
                  THEN sweep'.pc = "idle" /\ sweep'.ret = sweep'.count
                  ELSE sweep'.pc = "updating" /\ sweep'.todo = Tail(sweep.todo)
       /\ (sweep.pc = "idle" /\ sweep'.pc = "idle" /\ sweep' # sweep) =>
            (sweep'.ret = 0 /\ runs' = runs)]_vars

\* of two stale runs of one account the first is still 'running', its update
\* having raised, and the second was failed and is the one counted
SecondRunCountedAlone ==
    /\ sweep.pc = "idle"
    /\ sweep.ret = 1
    /\ sweep.written = {2}
    /\ runs[1].account_id = runs[2].account_id
    /\ runs[1].status = "running"
    /\ runs[1].started_at < now - 2 * SecondsPerMinute
    /\ runs[2].started_at < now - 2 * SecondsPerMinute
    /\ runs[2].status = "failed"
    /\ runs[2].error_message \in {SweepMessage(m) : m \in StaleMinutes}
    /\ cleanup = NoCleanup

\* C33: the single-run cleanup returns false and writes nothing for a run
\* that does not exist; returns true and writes nothing for a run it reads as
\* 'completed' or 'failed'; and for a run it read as 'running' it returns true
\* with that run 'failed' and its error_message the stuck-run message.
CleanupTrueMeansFailed ==
    [][cleanup' # cleanup =>
         /\ cleanup'.ret = "false" => runs' = runs
         /\ (cleanup.pc = "idle" /\ cleanup'.run \notin RunIds) =>
               cleanup'.ret = "false"
         /\ (cleanup.pc = "idle" /\ cleanup'.ret = "true") =>
               (runs' = runs /\ Terminal(runs[cleanup'.run].status))
         /\ cleanup.pc = "mark" =>
               /\ cleanup'.ret = "true"
               /\ runs'[cleanup.run].status = "failed"
               /\ runs'[cleanup.run].error_message = StuckMessage]_vars

\* what holds of every run: a failed run has an error message, which is one
\* writer's whole message, and a completion time
RunShape ==
    \A r \in RunIds :
        /\ runs[r].started_at # NoTime
        /\ runs[r].status = "failed" =>
              /\ runs[r].error_message \in FinalizerMessages \cup RuntimeErrors
              /\ runs[r].completed_at # NoTime

\* what holds of every write: a run is inserted 'running' with its start time
\* and nothing else, and the update that fails a run or changes a failed run's
\* message writes status, error_message and completed_at together
RunWrites ==
    /\ Len(runs') > Len(runs) =>
          LET new == runs'[Len(runs')]
          IN /\ Len(runs') = Len(runs) + 1
             /\ new.status = "running"
             /\ new.started_at = now
             /\ new.completed_at = NoTime
             /\ new.error_message = NoText
    /\ \A r \in RunIds :
          (\/ runs'[r].status = "failed" /\ runs[r].status # "failed"
           \/ runs'[r].error_message # runs[r].error_message) =>
             /\ runs'[r].status = "failed"
             /\ runs'[r].error_message \in FinalizerMessages \cup RuntimeErrors
             /\ runs'[r].completed_at = now

\* C34: every AgentRun is created 'running' with a start time and neither a
\* completion time nor an error message, and every write that sets a run
\* 'failed' sets its error_message and completed_at in the same update: no
\* failed run lacks either, and no error message mixes two finalizers'.
RunRecordsAreWhole == []RunShape /\ [][RunWrites]_vars

\* the cleanup and then the sweep failed the run call_agent is waiting for:
\* what the run holds is wholly the sweep's
RunFailedTwiceIsTheSweeps ==
    /\ pc = "waiting"
    /\ cleanup = [pc |-> "idle", run |-> 1, ret |-> "true"]
    /\ sweep.written = {1}
    /\ runs[1].status = "failed"
    /\ runs[1].error_message \in {SweepMessage(m) : m \in StaleMinutes}
    /\ runs[1].completed_at = now
    /\ runs[1].started_at < now

\* the delegation of call c has its seed Message in the store
Seeded(c) ==
    c.thread_id # 0 /\ \E i \in 1..Len(messages) : messages[i].thread_id = c.thread_id

\* the text of that Message
SeedText(c) ==
    MessageText(messages[CHOOSE i \in 1..Len(messages) :
                           messages[i].thread_id = c.thread_id].content)

\* the two delegations under way
Delegations == {call, other.call}

\* C35: the text of the seed Message is the caller's message as it was given
\* when there is no workflow; with a workflow it starts with the workflow's
\* name, goes on with the description when the workflow has one and ends with
\* the caller's message; two builds of the same message and workflow have the
\* same seed text.
SeedIsTheRequest ==
    /\ \A c \in Delegations :
         Seeded(c) =>
           LET text == SeedText(c)
               n == Len(text)
               k == Len(c.message)
           IN IF c.workflow = NoWorkflow THEN text = c.message
              ELSE LET wf == workflows[c.workflow]
                       described == wf.description \notin {None, << >>}
                   IN /\ n >= k + 3
                      /\ SubSeq(text, n - k + 1, n) = c.message
                      /\ text[2] = wf.name
                      /\ IF described
                         THEN /\ n = k + 5 + Len(wf.description)
                              /\ SubSeq(text, 5, 4 + Len(wf.description))
                                    = wf.description
                         ELSE n = k + 4
    /\ (/\ Seeded(call) /\ Seeded(other.call)
        /\ call.message = other.call.message
        /\ call.workflow = other.call.workflow)
          => SeedText(call) = SeedText(other.call)

\* two builds of the same message with the described workflow, in two
\* threads: both seeds hold the name, the description and the message
SameRequestSameSeed ==
    /\ Seeded(call) /\ Seeded(other.call)
    /\ call.thread_id # other.call.thread_id
    /\ call.workflow = "W1" /\ other.call.workflow = "W1"
    /\ call.message = <<"say ", "pong">>
    /\ other.call.message = call.message
    /\ SeedText(call) = <<"Executing workflow '", "daily", "'", ": ",
                          "the daily report", "\n\nUser message: ",
                          "say ", "pong">>
    /\ SeedText(other.call) = SeedText(call)

\* the agents of the account the tool was made for
AgentsOfAccount == {r \in agents : r.account_id = discovery.account_id}

\* what one listed entry has to be
EntryIsRight(e) ==
    /\ \E r \in AgentsOfAccount :
         /\ r.agent_id = e.agent_id
         /\ r.name = e.name
         /\ r.description = e.description
    /\ e.agent_id # discovery.current_agent_id
    /\ IF e.agent_id \in discovery.failed
       THEN e.workflows = << >>
       ELSE /\ {e.workflows[i] : i \in DOMAIN e.workflows}
                 = {WorkflowEntry(w) : w \in WorkflowsOf(e.agent_id)}
            /\ Len(e.workflows) = Cardinality(WorkflowsOf(e.agent_id))

\* C36: discovery lists only agents of the tool's account and never the agent
\* the thread manager names as the current one; an agent whose workflows could
\* not be fetched is listed with no workflows and every other agent with its
\* own; and the discovery that went through the agents answers success, with
\* every agent of the account but the current one listed once.
DiscoveryOutlivesWorkflowFailure ==
    /\ \A i \in DOMAIN discovery.agents : EntryIsRight(discovery.agents[i])
    /\ discovery.pc = "returned" =>
         \/ /\ discovery.response.kind = "success"
            /\ discovery.response.result = discovery.agents
            /\ {discovery.agents[i].agent_id : i \in DOMAIN discovery.agents}
                 = {r.agent_id : r \in AgentsOfAccount}
                      \ {discovery.current_agent_id}
            /\ \A i, j \in DOMAIN discovery.agents :
                 discovery.agents[i].agent_id = discovery.agents[j].agent_id
                    => i = j
         \/ /\ discovery.response.kind = "failure"
            /\ discovery.agents = << >>
            /\ discovery.failed = {}

\* A3 called; A2, whose workflows could not be fetched, is listed without
\* any, and A1 after it with its two
OneFetchFailedOthersListed ==
    /\ discovery.pc = "returned"
    /\ discovery.response.kind = "success"
    /\ discovery.current_agent_id = "A3"
    /\ agents = AgentPool
    /\ discovery.failed = {"A2"}
    /\ WorkflowsOf("A2") # {}
    /\ Len(discovery.response.result) = 2
    /\ discovery.response.result[1].agent_id = "A2"
    /\ discovery.response.result[1].workflows = << >>
    /\ discovery.response.result[2].agent_id = "A1"
    /\ Len(discovery.response.result[2].workflows) = 2

====
